---- MODULE Spec2Model ----
(***************************************************************************)
(* The alt-svc cache of src/Utilities/cmcurl/lib/altsvc.c as a state       *)
(* machine.  Strings of the C code are sequences of one-character strings; *)
(* the end of a C string (the NUL byte) is read as the character NUL.      *)
(* Integers keep a width: unsigned long is WordBits wide and time_t is a   *)
(* signed integer of the same width (scaled down from 64 bits so that the  *)
(* arithmetic stays inside the model checker's integers).                  *)
(* Allocation failure inside altsvc_createid is not modelled; the only     *)
(* allocation failure modelled is the strdup of altsvc_load.               *)
(***************************************************************************)
EXTENDS Integers, Sequences, FiniteSets, TLC

VARIABLES list, flags, filename, clock, op, ret, hit, pre, arg, out

vars == <<list, flags, filename, clock, op, ret, hit, pre, arg, out>>

(***************************** bounds ***************************************)
WordBits == 20
MaxEntries == 3
MaxClock == 2
MaxPrior == 2

(************************* program constants ********************************)
MAX_ALTSVC_LINE == 4095
MAX_ALTSVC_DATELEN == 256
MAX_ALTSVC_HOSTLEN == 2048
MAX_ALTSVC_ALPNLEN == 10
OPTION_BUFLEN == 32
USHRT_MAX == 65535
DEFAULT_MAXAGE == 24 * 3600

ULONG_MAX == 2 ^ WordBits - 1
TIME_T_MAX == 2 ^ (WordBits - 1) - 1

ALPN_none == 0
ALPN_h1 == 8
ALPN_h2 == 16
ALPN_h3 == 32
CURLALTSVC_READONLYFILE == 4
CURLALTSVC_H1 == 8
CURLALTSVC_H2 == 16
CURLALTSVC_H3 == 32

CURLE_OK == 0
CURLE_WRITE_ERROR == 23
CURLE_OUT_OF_MEMORY == 27
CURLE_BAD_FUNCTION_ARGUMENT == 43

(***************************** characters ***********************************)
NUL == ""
DIGITS == <<"0", "1", "2", "3", "4", "5", "6", "7", "8", "9">>
LOWERS == <<"a", "b", "c", "d", "e", "f", "g", "h", "i", "j", "k", "l", "m",
            "n", "o", "p", "q", "r", "s", "t", "u", "v", "w", "x", "y", "z">>
UPPERS == <<"A", "B", "C", "D", "E", "F", "G", "H", "I", "J", "K", "L", "M",
            "N", "O", "P", "Q", "R", "S", "T", "U", "V", "W", "X", "Y", "Z">>

Range(s) == {s[i] : i \in 1..Len(s)}

IndexOf(s, c) == CHOOSE i \in 1..Len(s) : s[i] = c

ISDIGIT(c) == c \in Range(DIGITS)
ISALNUM(c) == c \in Range(DIGITS) \cup Range(LOWERS) \cup Range(UPPERS)
ISBLANK(c) == c \in {" ", "\t"}
ISNEWLINE(c) == c \in {"\n", "\r"}
ISSPACE(c) == c \in {" ", "\t", "\n", "\r"}
DigitVal(c) == IndexOf(DIGITS, c) - 1
TOLOWER(c) == IF c \in Range(UPPERS) THEN LOWERS[IndexOf(UPPERS, c)] ELSE c

\* the character at position i of the C string s (NUL at and after its end)
At(s, i) == IF i >= 1 /\ i <= Len(s) THEN s[i] ELSE NUL

\* the n characters of s that start at position i
Sub(s, i, n) == [k \in 1..n |-> s[i + k - 1]]

Min(a, b) == IF a < b THEN a ELSE b

\* strncasecompare(a, b, n): the first n characters agree, ignoring case
strncasecompare(a, b, n) ==
  \A i \in 1..n : TOLOWER(At(a, i)) = TOLOWER(At(b, i))

\* strcasecompare(a, b): the two strings agree, ignoring case
strcasecompare(a, b) ==
  /\ Len(a) = Len(b)
  /\ \A i \in 1..Len(a) : TOLOWER(a[i]) = TOLOWER(b[i])

(****************************** integers ************************************)
RECURSIVE BitAnd(_, _)
BitAnd(a, b) ==
  IF a = 0 \/ b = 0 THEN 0
  ELSE (a % 2) * (b % 2) + 2 * BitAnd(a \div 2, b \div 2)

\* (time_t)num for an unsigned long num
ToTimeT(num) == IF num > TIME_T_MAX THEN num - (ULONG_MAX + 1) ELSE num

\* the digits of strtoul from position i: [num, end], saturating at ULONG_MAX
RECURSIVE strtoul_digits(_, _, _)
strtoul_digits(s, i, acc) ==
  IF ISDIGIT(At(s, i))
  THEN strtoul_digits(s, i + 1,
         IF acc * 10 + DigitVal(s[i]) > ULONG_MAX THEN ULONG_MAX + 1
         ELSE acc * 10 + DigitVal(s[i]))
  ELSE [num |-> acc, end |-> i]

RECURSIVE SkipSpace(_, _)
SkipSpace(s, i) == IF ISSPACE(At(s, i)) THEN SkipSpace(s, i + 1) ELSE i

\* strtoul(s + i, &end, 10): leading white space, an optional sign, digits;
\* no digits leaves end at i; overflow gives ULONG_MAX; '-' negates modulo
\* the word size
strtoul(s, i) ==
  LET j == SkipSpace(s, i)
      neg == At(s, j) = "-"
      k == IF At(s, j) \in {"-", "+"} THEN j + 1 ELSE j
      d == strtoul_digits(s, k, 0)
  IN IF d.end = k THEN [num |-> 0, end |-> i]
     ELSE IF d.num > ULONG_MAX THEN [num |-> ULONG_MAX, end |-> d.end]
     ELSE IF neg THEN [num |-> (ULONG_MAX + 1 - d.num) % (ULONG_MAX + 1),
                       end |-> d.end]
     ELSE d

(**************************** protocol ids **********************************)
Curl_alpnid2str(id) ==
  CASE id = ALPN_h1 -> <<"h", "1">>
    [] id = ALPN_h2 -> <<"h", "2">>
    [] id = ALPN_h3 -> <<"h", "3">>
    [] OTHER -> <<>>

\* Curl_alpn2alpnid(name, len): the len bytes at name are a recognized token
Curl_alpn2alpnid(name, len) ==
  LET tok == <<At(name, 1), At(name, 2)>>
  IN CASE len = 2 /\ tok = <<"h", "1">> -> ALPN_h1
       [] len = 2 /\ tok = <<"h", "2">> -> ALPN_h2
       [] len = 2 /\ tok = <<"h", "3">> -> ALPN_h3
       [] OTHER -> ALPN_none

(******************************* entries ************************************)
\* altsvc_createid without the test of the host left when the dot is stripped,
\* and altsvc_createid itself: <<>> is the NULL result, <<as>> a created entry (expires,
\* persist and prio are zero after calloc)
altsvc_createid_dotonly(srchost, dsthost, srcalpnid, dstalpnid, srcport, dstport) ==
  LET hlen == Len(srchost)
      dlen == Len(dsthost)
      srcbr == hlen > 2 /\ srchost[1] = "["
      srcdot == ~srcbr /\ hlen > 0 /\ srchost[hlen] = "."
      shost == IF srcbr THEN Sub(srchost, 2, hlen - 2)
               ELSE IF srcdot THEN Sub(srchost, 1, hlen - 1)
               ELSE srchost
      dhost == IF dlen > 2 /\ dsthost[1] = "[" THEN Sub(dsthost, 2, dlen - 2)
               ELSE dsthost
  IN IF hlen = 0 \/ dlen = 0 THEN <<>>
     ELSE << [src |-> [alpnid |-> srcalpnid, host |-> shost,
                       port |-> srcport % (USHRT_MAX + 1)],
              dst |-> [alpnid |-> dstalpnid, host |-> dhost,
                       port |-> dstport % (USHRT_MAX + 1)],
              expires |-> 0, persist |-> 0, prio |-> 0] >>

altsvc_createid(srchost, dsthost, srcalpnid, dstalpnid, srcport, dstport) ==
  LET hlen == Len(srchost)
      dlen == Len(dsthost)
      srcbr == hlen > 2 /\ srchost[1] = "["
      srcdot == ~srcbr /\ hlen > 0 /\ srchost[hlen] = "."
      shost == IF srcbr THEN Sub(srchost, 2, hlen - 2)
               ELSE IF srcdot THEN Sub(srchost, 1, hlen - 1)
               ELSE srchost
      dhost == IF dlen > 2 /\ dsthost[1] = "[" THEN Sub(dsthost, 2, dlen - 2)
               ELSE dsthost
  IN IF hlen = 0 \/ dlen = 0 THEN <<>>
     ELSE IF srcdot /\ hlen - 1 = 0 THEN <<>>
     ELSE << [src |-> [alpnid |-> srcalpnid, host |-> shost,
                       port |-> srcport % (USHRT_MAX + 1)],
              dst |-> [alpnid |-> dstalpnid, host |-> dhost,
                       port |-> dstport % (USHRT_MAX + 1)],
              expires |-> 0, persist |-> 0, prio |-> 0] >>

\* altsvc_create without the test of the two protocol ids
altsvc_create_anyid(srchost, dsthost, srcalpn, dstalpn, srcport, dstport) ==
  altsvc_createid(srchost, dsthost, Curl_alpn2alpnid(srcalpn, Len(srcalpn)),
                  Curl_alpn2alpnid(dstalpn, Len(dstalpn)), srcport, dstport)

altsvc_create(srchost, dsthost, srcalpn, dstalpn, srcport, dstport) ==
  LET dstalpnid == Curl_alpn2alpnid(dstalpn, Len(dstalpn))
      srcalpnid == Curl_alpn2alpnid(srcalpn, Len(srcalpn))
  IN IF srcalpnid = ALPN_none \/ dstalpnid = ALPN_none THEN <<>>
     ELSE altsvc_createid(srchost, dsthost, srcalpnid, dstalpnid,
                          srcport, dstport)

\* hostcompare with the trailing dot ignored on the second argument instead
hostcompare_checkdot(host, check) ==
  LET hlen == Len(host)
      clen0 == Len(check)
      clen == IF clen0 > 0 /\ check[clen0] = "." THEN clen0 - 1 ELSE clen0
  IN IF hlen # clen THEN FALSE
     ELSE strncasecompare(host, check, hlen)

\* hostcompare(host, check): a trailing dot of the first argument is ignored
hostcompare(host, check) ==
  LET hlen0 == Len(host)
      clen == Len(check)
      hlen == IF hlen0 > 0 /\ host[hlen0] = "." THEN hlen0 - 1 ELSE hlen0
  IN IF hlen # clen THEN FALSE
     ELSE strncasecompare(host, check, hlen)

\* altsvc_flush that leaves the entries with the persist flag in the list
RECURSIVE altsvc_flush_keeppersist(_, _, _, _)
altsvc_flush_keeppersist(l, srcalpnid, srchost, srcport) ==
  IF l = <<>> THEN <<>>
  ELSE LET as == Head(l)
           rest == altsvc_flush_keeppersist(Tail(l), srcalpnid, srchost,
                                            srcport)
       IN IF /\ srcalpnid = as.src.alpnid
             /\ srcport = as.src.port
             /\ hostcompare(srchost, as.src.host)
             /\ as.persist = 0
          THEN rest
          ELSE <<as>> \o rest

\* altsvc_flush: one pass over the list, removing the entries of the origin
RECURSIVE altsvc_flush(_, _, _, _)
altsvc_flush(l, srcalpnid, srchost, srcport) ==
  IF l = <<>> THEN <<>>
  ELSE LET as == Head(l)
           rest == altsvc_flush(Tail(l), srcalpnid, srchost, srcport)
       IN IF /\ srcalpnid = as.src.alpnid
             /\ srcport = as.src.port
             /\ hostcompare(srchost, as.src.host)
          THEN rest
          ELSE <<as>> \o rest

\* lookup_scan with the expiry test left out
RECURSIVE lookup_scan_noexpiry(_, _, _, _, _, _, _)
lookup_scan_noexpiry(kept, l, now, srcalpnid, srchost, srcport, versions) ==
  IF l = <<>> THEN [list |-> kept, found |-> FALSE, entry |-> <<>>]
  ELSE LET as == Head(l)
       IN IF /\ as.src.alpnid = srcalpnid
             /\ hostcompare(srchost, as.src.host)
             /\ as.src.port = srcport
             /\ BitAnd(versions, as.dst.alpnid) # 0
          THEN [list |-> kept \o l, found |-> TRUE, entry |-> <<as>>]
          ELSE lookup_scan_noexpiry(kept \o <<as>>, Tail(l), now, srcalpnid,
                                    srchost, srcport, versions)

\* lookup_scan with the test of the versions bitmask left out
RECURSIVE lookup_scan_anyversion(_, _, _, _, _, _, _)
lookup_scan_anyversion(kept, l, now, srcalpnid, srchost, srcport, versions) ==
  IF l = <<>> THEN [list |-> kept, found |-> FALSE, entry |-> <<>>]
  ELSE LET as == Head(l)
       IN IF as.expires < now
          THEN lookup_scan_anyversion(kept, Tail(l), now, srcalpnid, srchost,
                                      srcport, versions)
          ELSE IF /\ as.src.alpnid = srcalpnid
                  /\ hostcompare(srchost, as.src.host)
                  /\ as.src.port = srcport
          THEN [list |-> kept \o l, found |-> TRUE, entry |-> <<as>>]
          ELSE lookup_scan_anyversion(kept \o <<as>>, Tail(l), now, srcalpnid,
                                      srchost, srcport, versions)

\* lookup_scan that passes over an expired entry without removing it
RECURSIVE lookup_scan_keepexpired(_, _, _, _, _, _, _)
lookup_scan_keepexpired(kept, l, now, srcalpnid, srchost, srcport, versions) ==
  IF l = <<>> THEN [list |-> kept, found |-> FALSE, entry |-> <<>>]
  ELSE LET as == Head(l)
       IN IF as.expires < now
          THEN lookup_scan_keepexpired(kept \o <<as>>, Tail(l), now, srcalpnid,
                                       srchost, srcport, versions)
          ELSE IF /\ as.src.alpnid = srcalpnid
                  /\ hostcompare(srchost, as.src.host)
                  /\ as.src.port = srcport
                  /\ BitAnd(versions, as.dst.alpnid) # 0
          THEN [list |-> kept \o l, found |-> TRUE, entry |-> <<as>>]
          ELSE lookup_scan_keepexpired(kept \o <<as>>, Tail(l), now, srcalpnid,
                                       srchost, srcport, versions)

\* Curl_altsvc_lookup from the node e on: [list, found, entry]; kept holds
\* the nodes already passed and left in the list
RECURSIVE lookup_scan(_, _, _, _, _, _, _)
lookup_scan(kept, l, now, srcalpnid, srchost, srcport, versions) ==
  IF l = <<>> THEN [list |-> kept, found |-> FALSE, entry |-> <<>>]
  ELSE LET as == Head(l)
       IN IF as.expires < now
          THEN lookup_scan(kept, Tail(l), now, srcalpnid, srchost, srcport,
                           versions)
          ELSE IF /\ as.src.alpnid = srcalpnid
                  /\ hostcompare(srchost, as.src.host)
                  /\ as.src.port = srcport
                  /\ BitAnd(versions, as.dst.alpnid) # 0
          THEN [list |-> kept \o l, found |-> TRUE, entry |-> <<as>>]
          ELSE lookup_scan(kept \o <<as>>, Tail(l), now, srcalpnid, srchost,
                           srcport, versions)

Curl_altsvc_lookup(l, now, srcalpnid, srchost, srcport, versions) ==
  lookup_scan(<<>>, l, now, srcalpnid, srchost, srcport, versions)

(**************************** header parser *********************************)
RECURSIVE SkipBlank(_, _)
SkipBlank(s, i) == IF ISBLANK(At(s, i)) THEN SkipBlank(s, i + 1) ELSE i

RECURSIVE SkipToken(_, _)
SkipToken(s, i) ==
  IF At(s, i) # NUL /\ ~ISBLANK(At(s, i)) /\ At(s, i) # ";" /\ At(s, i) # "="
  THEN SkipToken(s, i + 1) ELSE i

\* getalnum(&p, buf, buflen): [result, buf, p]; buf is the token when it fits
getalnum(s, p, buflen) ==
  LET protop == SkipBlank(s, p)
      q == SkipToken(s, protop)
      len == q - protop
  IN IF len = 0 \/ len >= buflen
     THEN [result |-> CURLE_BAD_FUNCTION_ARGUMENT, buf |-> <<>>, p |-> q]
     ELSE [result |-> CURLE_OK, buf |-> Sub(s, protop, len), p |-> q]

IPV6CHARS == Range(DIGITS) \cup {"a", "b", "c", "d", "e", "f", "A", "B", "C",
                                 "D", "E", "F", ":", "."}

\* strspn(s + i, "0123456789abcdefABCDEF:.")
RECURSIVE SpanIPv6(_, _)
SpanIPv6(s, i) == IF At(s, i) \in IPV6CHARS THEN 1 + SpanIPv6(s, i + 1) ELSE 0

RECURSIVE SkipHostname(_, _)
SkipHostname(s, i) ==
  IF At(s, i) # NUL /\ (ISALNUM(At(s, i)) \/ At(s, i) = "." \/ At(s, i) = "-")
  THEN SkipHostname(s, i + 1) ELSE i

RECURSIVE SkipToQuote(_, _)
SkipToQuote(s, i) ==
  IF At(s, i) # NUL /\ At(s, i) # "\"" THEN SkipToQuote(s, i + 1) ELSE i

RECURSIVE SkipBare(_, _)
SkipBare(s, i) ==
  IF At(s, i) # NUL /\ ~ISBLANK(At(s, i)) /\ At(s, i) # ";" /\ At(s, i) # ","
  THEN SkipBare(s, i + 1) ELSE i

\* the for(;;) loop over the parameters of one alternative, from position
\* st.p: [p, maxage, persist, quoted, abort]; abort is a return from the
\* function.  parse_value is the part of one turn after the value is
\* delimited (n is what strtoul makes of it, p the position behind it),
\* parse_option the part after the name of the parameter is read (g)
RECURSIVE parse_params(_, _)
parse_value(s, st, option, value_ptr, p, n) ==
  LET isnum == n.end # value_ptr /\ n.num < ULONG_MAX
      isma == isnum /\ strcasecompare(<<"m", "a">>, option)
      ispersist == /\ isnum /\ ~isma /\ n.num = 1
                   /\ strcasecompare(<<"p", "e", "r", "s", "i", "s", "t">>,
                                     option)
  IN parse_params(s, [p |-> p,
                      maxage |-> IF isma THEN ToTimeT(n.num) ELSE st.maxage,
                      persist |-> st.persist \/ ispersist,
                      quoted |-> st.quoted,
                      abort |-> FALSE])

parse_quoted(s, st, option, quoted, value_ptr, q) ==
  IF quoted /\ At(s, q) = NUL THEN [st EXCEPT !.abort = TRUE]
  ELSE parse_value(s, [st EXCEPT !.quoted = quoted], option, value_ptr,
                   IF quoted THEN q + 1 ELSE SkipBare(s, value_ptr),
                   strtoul(s, value_ptr))

parse_equals(s, st, option, p) ==
  LET value_ptr == IF At(s, p) = "\"" THEN p + 1 ELSE p
  IN IF At(s, p) = NUL THEN [st EXCEPT !.abort = TRUE]
     ELSE parse_quoted(s, st, option, st.quoted \/ At(s, p) = "\"",
                       value_ptr, SkipToQuote(s, value_ptr))

parse_option(s, st, g, p) ==
  IF At(s, p) # "=" THEN [st EXCEPT !.abort = TRUE]
  ELSE parse_equals(s, st, IF g.result # CURLE_OK THEN <<>> ELSE g.buf,
                    SkipBlank(s, p + 1))

parse_semicolon(s, st, p) ==
  IF At(s, p) # ";" THEN [st EXCEPT !.p = p]
  ELSE IF At(s, p + 1) = NUL \/ ISNEWLINE(At(s, p + 1))
  THEN [st EXCEPT !.p = p + 1]
  ELSE \* the option name is read and the blanks after it are passed
       LET g == getalnum(s, p + 1, OPTION_BUFLEN)
       IN parse_option(s, st, g, SkipBlank(s, g.p))

parse_params(s, st) == parse_semicolon(s, st, SkipBlank(s, st.p))

\* the expiry of an entry stored at time secs with the given max-age
parse_expires(maxage, secs) ==
  IF maxage > TIME_T_MAX - secs THEN TIME_T_MAX ELSE maxage + secs

\* the destination host of one alternative, the quote passed at position p:
\* [p, dsthost, valid, bail]
parse_dsthost(s, p, srchost) ==
  LET span == SpanIPv6(s, p + 1)
      q == SkipHostname(s, p)
      dstlen == IF At(s, p) = "[" THEN span + 2 ELSE q - p
      bad == dstlen = 0 \/ dstlen >= MAX_ALTSVC_HOSTLEN
  IN IF At(s, p) = ":"
     THEN [p |-> p, dsthost |-> srchost, valid |-> TRUE, bail |-> FALSE]
     ELSE IF At(s, p) = "[" /\ At(s, p + 1 + span) # "]"
     THEN [p |-> p, dsthost |-> <<>>, valid |-> FALSE, bail |-> TRUE]
     ELSE [p |-> p + dstlen, dsthost |-> IF bad THEN <<>> ELSE Sub(s, p, dstlen),
           valid |-> ~bad, bail |-> FALSE]

\* the port number n read behind the colon at position p
parse_portnum(s, p, dstport, n) ==
  IF \/ n.num = 0 \/ n.num > USHRT_MAX \/ n.end = p + 1
     \/ At(s, n.end) # "\""
  THEN [p |-> p + 1, dstport |-> dstport, valid |-> FALSE]
  ELSE [p |-> n.end, dstport |-> n.num, valid |-> TRUE]

\* the port of one alternative, from position p: [p, dstport, valid]
parse_dstport(s, p, dstport) ==
  IF At(s, p) # ":" THEN [p |-> p, dstport |-> dstport, valid |-> TRUE]
  ELSE parse_portnum(s, p, dstport,
                     IF ISDIGIT(At(s, p + 1)) THEN strtoul(s, p + 1)
                     ELSE [num |-> 0, end |-> p + 1])

\* the entry one alternative appends: as is what altsvc_createid returns
parse_entry(as, maxage, persist, secs) ==
  IF as = <<>> THEN <<>>
  ELSE << [as[1] EXCEPT !.expires = parse_expires(maxage, secs),
                        !.persist = IF persist THEN 1 ELSE 0] >>

\* if(dstalpnid && valid): the flush before the first entry of the header
\* and the entry new appended
parse_store(c, st, dstport, store, new) ==
  [st EXCEPT
     !.dstport = dstport,
     !.entries = IF store THEN @ + 1 ELSE @,
     !.flushes = IF store /\ st.entries = 0 THEN @ + 1 ELSE @,
     !.list = IF ~store THEN @
              ELSE IF st.entries = 0
              THEN altsvc_flush(@, c.srcalpnid, c.srchost, c.srcport) \o new
              ELSE @ \o new,
     !.added = IF store THEN @ \o new ELSE @]

\* the token g read behind a comma
parse_comma(st, g) ==
  IF g.result # CURLE_OK THEN [st EXCEPT !.done = TRUE]
  ELSE [st EXCEPT !.p = g.p, !.alpnbuf = g.buf]

\* if(*p == ','): st is the state after the alternative is stored
parse_after(s, p, st) ==
  IF At(s, p) # "," THEN [st EXCEPT !.p = p]
  ELSE parse_comma(st, getalnum(s, p + 1, MAX_ALTSVC_ALPNLEN))

\* the alternative after its parameters pm are read
parse_alt_params(s, c, st, dstalpnid, h, pt, pm) ==
  IF pm.abort THEN [st EXCEPT !.done = TRUE, !.dstport = pt.dstport]
  ELSE parse_after(s, pm.p,
         parse_store(c, st, pt.dstport,
                     dstalpnid # ALPN_none /\ h.valid /\ pt.valid,
                     parse_entry(altsvc_createid(c.srchost, h.dsthost,
                                                 c.srcalpnid, dstalpnid,
                                                 c.srcport, pt.dstport),
                                 pm.maxage, pm.persist, c.now)))

\* the alternative after its port pt is read
parse_alt_port(s, c, st, dstalpnid, h, pt) ==
  IF At(s, pt.p) # "\"" THEN [st EXCEPT !.done = TRUE, !.dstport = pt.dstport]
  ELSE parse_alt_params(s, c, st, dstalpnid, h, pt,
         parse_params(s, [p |-> pt.p + 1, maxage |-> DEFAULT_MAXAGE,
                          persist |-> FALSE, quoted |-> FALSE,
                          abort |-> FALSE]))

\* the alternative after its host h is read
parse_alt_host(s, c, st, dstalpnid, h) ==
  IF h.bail THEN [st EXCEPT !.done = TRUE]
  ELSE parse_alt_port(s, c, st, dstalpnid, h,
                      parse_dstport(s, h.p, st.dstport))

\* one alternative, the '=' found at position st.p: the state after the
\* alternative; done tells that the do-while loop or the function is left
parse_alt(s, c, st) ==
  IF At(s, st.p + 1) # "\"" THEN [st EXCEPT !.done = TRUE]
  ELSE parse_alt_host(s, c, st, Curl_alpn2alpnid(st.alpnbuf, st.alpnlen),
                      parse_dsthost(s, st.p + 2, c.srchost))

\* the do-while loop over the alternatives; parse_while is its condition,
\* tested in the state nx one alternative leaves
RECURSIVE parse_loop(_, _, _)
parse_while(s, c, nx) ==
  IF nx.done THEN nx
  ELSE IF At(s, nx.p) # NUL /\ At(s, nx.p) # ";"
          /\ At(s, nx.p) # "\n" /\ At(s, nx.p) # "\r"
  THEN parse_loop(s, c, nx)
  ELSE nx

parse_loop(s, c, st) ==
  IF At(s, st.p) # "=" THEN st ELSE parse_while(s, c, parse_alt(s, c, st))

\* parse_excessive handing the result of getalnum to the caller
parse_excessive_report(result) == result

\* the result of getalnum reported by Curl_altsvc_parse: always CURLE_OK
parse_excessive(result) == CURLE_OK

\* what Curl_altsvc_parse leaves when the loop ends in the state st
parse_result(st) ==
  [list |-> st.list, result |-> CURLE_OK, flushes |-> st.flushes,
   added |-> st.added]

\* parse_first with the keyword compared in lower case only
parse_first_exact(l, value, c, g) ==
  IF g.result # CURLE_OK
  THEN [list |-> l, result |-> parse_excessive(g.result), flushes |-> 0,
        added |-> <<>>]
  ELSE IF g.buf = <<"c", "l", "e", "a", "r">>
  THEN [list |-> altsvc_flush(l, c.srcalpnid, c.srchost, c.srcport),
        result |-> CURLE_OK, flushes |-> 1, added |-> <<>>]
  ELSE parse_result(parse_loop(value, c,
         [p |-> g.p, alpnbuf |-> g.buf, alpnlen |-> Len(g.buf),
          dstport |-> c.srcport, entries |-> 0, flushes |-> 0, list |-> l,
          added |-> <<>>, done |-> FALSE]))

\* Curl_altsvc_parse after the first token g is read
parse_first(l, value, c, g) ==
  IF g.result # CURLE_OK
  THEN [list |-> l, result |-> parse_excessive(g.result), flushes |-> 0,
        added |-> <<>>]
  ELSE IF strcasecompare(g.buf, <<"c", "l", "e", "a", "r">>)
  THEN [list |-> altsvc_flush(l, c.srcalpnid, c.srchost, c.srcport),
        result |-> CURLE_OK, flushes |-> 1, added |-> <<>>]
  ELSE parse_result(parse_loop(value, c,
         [p |-> g.p, alpnbuf |-> g.buf, alpnlen |-> Len(g.buf),
          dstport |-> c.srcport, entries |-> 0, flushes |-> 0, list |-> l,
          added |-> <<>>, done |-> FALSE]))

\* Curl_altsvc_parse(data, asi, value, srcalpnid, srchost, srcport) at time
\* now: [list, result, flushes, added]; flushes counts the calls of
\* altsvc_flush and added lists the entries appended, in order
Curl_altsvc_parse(l, value, srcalpnid, srchost, srcport, now) ==
  parse_first(l, value,
              [srcalpnid |-> srcalpnid, srchost |-> srchost,
               srcport |-> srcport, now |-> now],
              getalnum(value, 1, MAX_ALTSVC_ALPNLEN))

(*************************** persistence codec ******************************)
\* printf("%u", n)
RECURSIVE Dec(_)
Dec(n) == IF n < 10 THEN <<DIGITS[n + 1]>>
          ELSE Dec(n \div 10) \o <<DIGITS[(n % 10) + 1]>>

\* printf("%02d", n) for 0 <= n
Dec02(n) == IF n < 10 THEN <<"0">> \o Dec(n) ELSE Dec(n)

\* the calendar date [year, mon, mday] of the day number z (0 is 19700101)
civil_from_days(z0) ==
  LET z == z0 + 719468
      era == z \div 146097
      doe == z - era * 146097
      yoe == (doe - doe \div 1460 + doe \div 36524 - doe \div 146096) \div 365
      doy == doe - (365 * yoe + yoe \div 4 - yoe \div 100)
      mp == (5 * doy + 2) \div 153
      d == doy - (153 * mp + 2) \div 5 + 1
      m == IF mp < 10 THEN mp + 3 ELSE mp - 9
  IN [year |-> yoe + era * 400 + (IF m <= 2 THEN 1 ELSE 0), mon |-> m,
      mday |-> d]

days_from_civil(y0, m, d) ==
  LET y == IF m <= 2 THEN y0 - 1 ELSE y0
      era == y \div 400
      yoe == y - era * 400
      doy == (153 * (IF m > 2 THEN m - 3 ELSE m + 9) + 2) \div 5 + d - 1
      doe == yoe * 365 + yoe \div 4 - yoe \div 100 + doy
  IN era * 146097 + doe - 719468

\* the fields of struct tm for the second sod of the day with the date c
gmtime_tm(sod, c) ==
  [result |-> CURLE_OK, year |-> c.year, mon |-> c.mon, mday |-> c.mday,
   hour |-> sod \div 3600, min |-> (sod % 3600) \div 60, sec |-> sod % 60]

\* Curl_gmtime(t, &stamp): wide tells that time_t reaches beyond the years
\* the calendar can hold, where the conversion fails
Curl_gmtime(t, wide) ==
  IF wide /\ (t > TIME_T_MAX \div 2 \/ t < -(TIME_T_MAX \div 2))
  THEN [result |-> CURLE_BAD_FUNCTION_ARGUMENT]
  ELSE gmtime_tm(t - (t \div 86400) * 86400, civil_from_days(t \div 86400))

AllDigits(s, i, n) == \A k \in i..(i + n - 1) : ISDIGIT(At(s, k))

RECURSIVE Num(_, _, _)
Num(s, i, n) == IF n = 0 THEN 0
                ELSE Num(s, i, n - 1) * 10 + DigitVal(s[i + n - 1])

\* Curl_getdate_capped(p) for the date format of the cache file: -1 when the
\* text is no date, never -1 for a date, capped at TIME_T_MAX
Curl_getdate_capped(s) ==
  LET wellformed == /\ Len(s) = 17
                    /\ AllDigits(s, 1, 8) /\ s[9] = " "
                    /\ AllDigits(s, 10, 2) /\ s[12] = ":"
                    /\ AllDigits(s, 13, 2) /\ s[15] = ":"
                    /\ AllDigits(s, 16, 2)
      y == Num(s, 1, 4)
      m == Num(s, 5, 2)
      d == Num(s, 7, 2)
      hh == Num(s, 10, 2)
      mm == Num(s, 13, 2)
      ss == Num(s, 16, 2)
      inrange == /\ m \in 1..12 /\ d \in 1..31 /\ hh <= 23 /\ mm <= 59
                 /\ ss <= 60 /\ y >= 1583 /\ y <= 9999
      t == days_from_civil(y, m, d) * 86400 + hh * 3600 + mm * 60 + ss
  IN IF ~wellformed THEN -1
     ELSE IF ~inrange THEN -1
     ELSE IF t > TIME_T_MAX THEN TIME_T_MAX
     ELSE IF t < -TIME_T_MAX - 1 THEN -1
     ELSE IF t = -1 THEN 0
     ELSE t

\* Curl_inet_pton(AF_INET6, host, buf) = 1: groups of hex digits separated
\* by colons, at least two colons
Curl_inet_pton6(host) ==
  /\ \A i \in 1..Len(host) :
       host[i] \in IPV6CHARS \ {"."}
  /\ Cardinality({i \in 1..Len(host) : host[i] = ":"}) >= 2

\* printf("%d%02d%02d %02d:%02d:%02d") of the fields of stamp
stamp_text(stamp) ==
  Dec(stamp.year) \o Dec02(stamp.mon) \o Dec02(stamp.mday) \o <<" ">>
  \o Dec02(stamp.hour) \o <<":">> \o Dec02(stamp.min) \o <<":">>
  \o Dec02(stamp.sec)

\* the host as altsvc_out prints it: in brackets when it is an IPv6 address
out_host(ipv6, host) ==
  IF ipv6 /\ Curl_inet_pton6(host) THEN <<"[">> \o host \o <<"]">> ELSE host

\* the fprintf of altsvc_out
out_line(as, ipv6, stamp) ==
  Curl_alpnid2str(as.src.alpnid) \o <<" ">>
  \o out_host(ipv6, as.src.host) \o <<" ">>
  \o Dec(as.src.port) \o <<" ">>
  \o Curl_alpnid2str(as.dst.alpnid) \o <<" ">>
  \o out_host(ipv6, as.dst.host) \o <<" ">>
  \o Dec(as.dst.port) \o <<" ", "\"">>
  \o stamp_text(stamp) \o <<"\"", " ">>
  \o Dec(as.persist) \o <<" ">> \o Dec(as.prio) \o <<"\n">>

out_stamp(as, ipv6, stamp) ==
  IF stamp.result # CURLE_OK THEN [result |-> stamp.result, line |-> <<>>]
  ELSE [result |-> CURLE_OK, line |-> out_line(as, ipv6, stamp)]

\* altsvc_out(as, fp): [result, line]; ipv6 is the USE_IPV6 build option
altsvc_out(as, ipv6, wide) == out_stamp(as, ipv6, Curl_gmtime(as.expires, wide))

RECURSIVE SkipUntil(_, _, _)
SkipUntil(s, i, delim) ==
  IF At(s, i) # NUL /\ At(s, i) # delim THEN SkipUntil(s, i + 1, delim) ELSE i

\* Curl_str_word(&line, &out, max): [err, str, p]
Curl_str_word(s, p, max) ==
  LET q == SkipUntil(s, p, " ")
  IN IF q - p > max \/ q = p THEN [err |-> TRUE, str |-> <<>>, p |-> p]
     ELSE [err |-> FALSE, str |-> Sub(s, p, q - p), p |-> q]

\* Curl_str_quotedword(&line, &out, max): [err, str, p]
Curl_str_quotedword(s, p, max) ==
  LET q == SkipUntil(s, p + 1, "\"")
  IN IF At(s, p) # "\"" \/ q - (p + 1) > max \/ At(s, q) # "\""
     THEN [err |-> TRUE, str |-> <<>>, p |-> p]
     ELSE [err |-> FALSE, str |-> Sub(s, p + 1, q - (p + 1)), p |-> q + 1]

\* Curl_str_singlespace(&line): [err, p]
Curl_str_singlespace(s, p) ==
  IF At(s, p) = " " THEN [err |-> FALSE, p |-> p + 1]
  ELSE [err |-> TRUE, p |-> p]

\* Curl_str_number(&line, &num, max): [err, num, p]
Curl_str_number(s, p, max) ==
  LET d == strtoul_digits(s, p, 0)
  IN IF ~ISDIGIT(At(s, p)) \/ d.num > max
     THEN [err |-> TRUE, num |-> 0, p |-> p]
     ELSE [err |-> FALSE, num |-> d.num, p |-> d.end]

\* Curl_str_newline(&line): [err, p]
Curl_str_newline(s, p) ==
  IF ISNEWLINE(At(s, p)) THEN [err |-> FALSE, p |-> p + 1]
  ELSE [err |-> TRUE, p |-> p]

\* the largest priority number a line may carry
ADD_PRIO_MAX == 0

\* altsvc_add(asi, line): the list after the line
altsvc_add(l, line) ==
  LET srcalpn == Curl_str_word(line, 1, MAX_ALTSVC_ALPNLEN)
      s1 == Curl_str_singlespace(line, srcalpn.p)
      srchost == Curl_str_word(line, s1.p, MAX_ALTSVC_HOSTLEN)
      s2 == Curl_str_singlespace(line, srchost.p)
      srcport == Curl_str_number(line, s2.p, 65535)
      s3 == Curl_str_singlespace(line, srcport.p)
      dstalpn == Curl_str_word(line, s3.p, MAX_ALTSVC_ALPNLEN)
      s4 == Curl_str_singlespace(line, dstalpn.p)
      dsthost == Curl_str_word(line, s4.p, MAX_ALTSVC_HOSTLEN)
      s5 == Curl_str_singlespace(line, dsthost.p)
      dstport == Curl_str_number(line, s5.p, 65535)
      s6 == Curl_str_singlespace(line, dstport.p)
      date == Curl_str_quotedword(line, s6.p, MAX_ALTSVC_DATELEN)
      s7 == Curl_str_singlespace(line, date.p)
      persist == Curl_str_number(line, s7.p, 1)
      s8 == Curl_str_singlespace(line, persist.p)
      prio == Curl_str_number(line, s8.p, ADD_PRIO_MAX)
      nl == Curl_str_newline(line, prio.p)
      as == altsvc_create(srchost.str, dsthost.str, srcalpn.str, dstalpn.str,
                          srcport.num, dstport.num)
  IN IF \/ srcalpn.err \/ s1.err \/ srchost.err \/ s2.err \/ srcport.err
        \/ s3.err \/ dstalpn.err \/ s4.err \/ dsthost.err \/ s5.err
        \/ dstport.err \/ s6.err \/ date.err \/ s7.err \/ persist.err
        \/ s8.err \/ prio.err \/ nl.err
     THEN l
     ELSE IF as = <<>> THEN l
     ELSE l \o << [as[1] EXCEPT
                     !.expires = Curl_getdate_capped(date.str),
                     !.prio = 0,
                     !.persist = IF persist.num # 0 THEN 1 ELSE 0] >>

\* the while loop of altsvc_load over the lines Curl_get_line returns
RECURSIVE load_lines(_, _)
load_lines(l, lines) ==
  IF lines = <<>> THEN l
  ELSE LET line == Head(lines)
           lineptr == SkipBlank(line, 1)
       IN IF At(line, lineptr) = "#" THEN load_lines(l, Tail(lines))
          ELSE load_lines(altsvc_add(l, Sub(line, lineptr,
                                            Len(line) - lineptr + 1)),
                          Tail(lines))

\* altsvc_load(asi, file): [result, list, filename]; dupok is the success of
\* strdup, content the lines of the file, <<"ENOENT">> a file fopen refuses
NoContent == <<"ENOENT">>

\* altsvc_load that keeps the file name only of a file it could open
altsvc_load_opened(l, fname, file, content, dupok) ==
  IF ~dupok
  THEN [result |-> CURLE_OUT_OF_MEMORY, list |-> l, filename |-> <<>>]
  ELSE IF content = NoContent
  THEN [result |-> CURLE_OK, list |-> l, filename |-> fname]
  ELSE [result |-> CURLE_OK, list |-> load_lines(l, content),
        filename |-> <<file>>]

altsvc_load(l, fname, file, content, dupok) ==
  IF ~dupok
  THEN [result |-> CURLE_OUT_OF_MEMORY, list |-> l, filename |-> <<>>]
  ELSE IF content = NoContent
  THEN [result |-> CURLE_OK, list |-> l, filename |-> <<file>>]
  ELSE [result |-> CURLE_OK, list |-> load_lines(l, content),
        filename |-> <<file>>]

\* the two comment lines fputs writes: the '#', the text, the newline
HEADER1 == <<"#", " Your alt-svc cache. https://curl.se/docs/alt-svc.html",
             "\n">>
HEADER2 == <<"#", " This file was generated by libcurl! Edit at your own risk.",
             "\n">>

\* the loop of Curl_altsvc_save over the entries: [result, lines]; lines are
\* the lines written, up to the entry altsvc_out fails for
RECURSIVE save_lines(_, _, _, _)
save_line(lines, l, ipv6, wide, o) ==
  IF o.result # CURLE_OK THEN [result |-> o.result, lines |-> lines]
  ELSE save_lines(lines \o <<o.line>>, Tail(l), ipv6, wide)

save_lines(lines, l, ipv6, wide) ==
  IF l = <<>> THEN [result |-> CURLE_OK, lines |-> lines]
  ELSE save_line(lines, l, ipv6, wide, altsvc_out(Head(l), ipv6, wide))

\* Curl_altsvc_save after the file is written: w is what the loop returns.
\* The results of fputs, fprintf and fclose are not looked at: write_ok, which
\* tells that all of them succeeded, changes only what is in the file
save_close(path, tempstore, rename_ok, write_ok, w) ==
  IF tempstore /\ w.result # CURLE_OK
  THEN [result |-> w.result, out |-> <<>>, temp |-> "unlinked"]
  ELSE IF tempstore /\ ~rename_ok
  THEN [result |-> CURLE_WRITE_ERROR, out |-> <<>>, temp |-> "unlinked"]
  ELSE [result |-> w.result,
        out |-> << [path |-> path, lines |-> <<HEADER1, HEADER2>> \o w.lines,
                    complete |-> write_ok] >>,
        temp |-> IF tempstore THEN "renamed" ELSE "none"]

\* Curl_altsvc_save with the read-only flag not looked at
save_file_writable(l, fl, file, fopen_ok, tempstore, rename_ok, write_ok, ipv6, wide) ==
  IF file = <<>> \/ file[1] = ""
  THEN [result |-> CURLE_OK, out |-> <<>>, temp |-> "none"]
  ELSE IF ~fopen_ok
  THEN [result |-> CURLE_WRITE_ERROR, out |-> <<>>, temp |-> "none"]
  ELSE save_close(file[1], tempstore, rename_ok, write_ok,
                  save_lines(<<>>, l, ipv6, wide))

\* Curl_altsvc_save after the file name is chosen
save_file(l, fl, file, fopen_ok, tempstore, rename_ok, write_ok, ipv6, wide) ==
  IF BitAnd(fl, CURLALTSVC_READONLYFILE) # 0 \/ file = <<>> \/ file[1] = ""
  THEN [result |-> CURLE_OK, out |-> <<>>, temp |-> "none"]
  ELSE IF ~fopen_ok
  THEN [result |-> CURLE_WRITE_ERROR, out |-> <<>>, temp |-> "none"]
  ELSE save_close(file[1], tempstore, rename_ok, write_ok,
                  save_lines(<<>>, l, ipv6, wide))

\* Curl_altsvc_save(data, altsvc, file): [result, out, temp].  file0 and fname
\* are <<>> for NULL or <<path>>; fopen_ok, tempstore, rename_ok and write_ok
\* are what Curl_fopen, Curl_rename and the writes to the stream do: tempstore
\* tells that Curl_fopen writes to a temporary file that is renamed onto the
\* target afterwards.  out is <<>> when the target file is left as it was,
\* else the path and the new lines; temp tells what became of the temporary
\* file
Curl_altsvc_save(l, fl, fname, file0, fopen_ok, tempstore, rename_ok, write_ok, ipv6, wide) ==
  save_file(l, fl, IF file0 = <<>> /\ fname # <<>> THEN fname ELSE file0,
            fopen_ok, tempstore, rename_ok, write_ok, ipv6, wide)

(***************************** input texts **********************************)
H1 == <<"h", "1">>
H2 == <<"h", "2">>
H3 == <<"h", "3">>
H9 == <<"h", "9">>
H3_29 == <<"h", "3", "-", "2", "9">>
HostA == <<"a">>
HostUpperA == <<"A">>
HostADot == <<"a", ".">>
HostADotDot == <<"a", ".", ".">>
HostB == <<"b">>
HostV6 == <<":", ":", "1">>
HostV6Br == <<"[", ":", ":", "1", "]">>
HostDot == <<".">>
HostBr == <<"[", "]">>

\* one parameter of an alternative: "; name=value", the value a number that
\* is quoted or bare
ParamText(pm) ==
  <<";", " ">> \o pm.name \o <<"=">>
  \o (IF pm.quoted THEN <<"\"">> \o Dec(pm.val) \o <<"\"">> ELSE Dec(pm.val))

RECURSIVE ParamsText(_)
ParamsText(pms) ==
  IF pms = <<>> THEN <<>> ELSE ParamText(Head(pms)) \o ParamsText(Tail(pms))

\* one alternative: tok="host:port" and its parameters; port <<>> is no port
AltText(a) ==
  a.tok \o <<"=", "\"">> \o a.host
  \o (IF a.port = <<>> THEN <<>> ELSE <<":">> \o Dec(a.port[1]))
  \o <<"\"">> \o ParamsText(a.params)

\* a header value: the alternatives separated by ", "
RECURSIVE ValueText(_)
ValueText(alts) ==
  IF alts = <<>> THEN <<>>
  ELSE IF Len(alts) = 1 THEN AltText(alts[1])
  ELSE AltText(alts[1]) \o <<",", " ">> \o ValueText(Tail(alts))

Alt(tok, host, port, params) ==
  [tok |-> tok, host |-> host, port |-> port, params |-> params]

Param(name, n) == [name |-> name, val |-> n, quoted |-> FALSE]
Ma(n) == [name |-> <<"m", "a">>, val |-> n, quoted |-> FALSE]
Persist(n) == [name |-> <<"p", "e", "r", "s", "i", "s", "t">>, val |-> n,
               quoted |-> FALSE]
\* ma="n", the value in double quotes
MaQuoted(n) == [name |-> <<"m", "a">>, val |-> n, quoted |-> TRUE]

\* a header value: its text, and its alternatives when the text is made of
\* well-formed alternatives (<<>> for any other text)
Header(alts) == [alts |-> alts, text |-> ValueText(alts)]
Raw(text) == [alts |-> <<>>, text |-> text]

CLEAR == <<"c", "l", "e", "a", "r">>
CLEAR_MIXED == <<"C", "l", "E", "a", "R">>

\* the date text of the cache file for the time t
DateText(t) == stamp_text(Curl_gmtime(t, FALSE))

\* one line of a cache file
LineText(salpn, shost, sport, dalpn, dhost, dport, date, persist, prio) ==
  salpn \o <<" ">> \o shost \o <<" ">> \o Dec(sport) \o <<" ">>
  \o dalpn \o <<" ">> \o dhost \o <<" ">> \o Dec(dport) \o <<" ", "\"">>
  \o date \o <<"\"", " ">> \o Dec(persist) \o <<" ">> \o Dec(prio)
  \o <<"\n">>

\* a line of a cache file: its text, and its nine fields when the text is
\* made of nine fields (<<>> for any other text)
FileLine(salpn, shost, sport, dalpn, dhost, dport, date, persist, prio) ==
  [rec |-> << [salpn |-> salpn, shost |-> shost, sport |-> sport,
               dalpn |-> dalpn, dhost |-> dhost, dport |-> dport,
               date |-> date, persist |-> persist, prio |-> prio] >>,
   text |-> LineText(salpn, shost, sport, dalpn, dhost, dport, date, persist,
                     prio)]
RawLine(text) == [rec |-> <<>>, text |-> text]

\* a cache file of the given lines, and a file fopen refuses
File(lines) == [exists |-> TRUE, lines |-> lines]
NoFile == [exists |-> FALSE, lines |-> <<>>]
\* what altsvc_load reads from a file
FileTexts(content) ==
  IF content.exists
  THEN [i \in 1..Len(content.lines) |-> content.lines[i].text]
  ELSE NoContent

Origin(alpnid, host, port) == [alpnid |-> alpnid, host |-> host, port |-> port]

(****************************** the cache ***********************************)
NoArg == [none |-> TRUE]

Origins == {Origin(ALPN_h1, HostA, 80), Origin(ALPN_h1, HostADot, 80),
            Origin(ALPN_h2, HostB, 443)}

LookupOrigins == Origins \cup {Origin(ALPN_h1, HostUpperA, 80)}

Versions == {CURLALTSVC_H2, CURLALTSVC_H3,
             CURLALTSVC_H1 + CURLALTSVC_H2 + CURLALTSVC_H3}

Values == {Header(<<Alt(H2, <<>>, <<443>>, <<Ma(1)>>)>>),
           Header(<<Alt(H3, HostB, <<8443>>, <<Ma(2), Persist(1)>>),
                    Alt(H2, HostA, <<>>, <<>>)>>),
           Header(<<Alt(H9, HostB, <<443>>, <<>>)>>),
           Raw(CLEAR)}

\* a cache file as Curl_get_line reads it: comment, two entries (the first
\* with a source host that keeps one dot after normalization), one bad line
File1 ==
  File(<<RawLine(HEADER1),
         FileLine(H1, HostADotDot, 80, H2, HostB, 443, DateText(1), 1, 0),
         FileLine(H2, HostB, 443, H3, HostV6Br, 8443, DateText(2), 0, 0),
         FileLine(H2, HostB, 443, H9, HostA, 1, DateText(2), 0, 0)>>)

Paths == {"f"}
Files == {File1, NoFile}
SaveFiles == {<<>>, <<"">>, <<"g">>}
\* what Curl_fopen and Curl_rename do in one save: the open fails, the
\* target is written in place, the temporary file is renamed or is not
IO(fopen_ok, tempstore, rename_ok, write_ok) ==
  [fopen_ok |-> fopen_ok, tempstore |-> tempstore, rename_ok |-> rename_ok,
   write_ok |-> write_ok]
SaveIO == {IO(FALSE, FALSE, FALSE, TRUE), IO(TRUE, FALSE, FALSE, TRUE),
           IO(TRUE, TRUE, TRUE, TRUE), IO(TRUE, TRUE, FALSE, TRUE)}
\* the inputs of the header parser taken on its own: headers of one to three
\* alternatives with recognized and unrecognized tokens, with and without
\* host and port, with max-ages at the ends of the number range, the keyword
\* clear, and texts that are no alternatives; the source hosts include a
\* bracketed address and a host that is only a dot
ParseOrigins == {Origin(ALPN_h1, HostA, 80), Origin(ALPN_h1, HostADot, 80),
                 Origin(ALPN_h2, HostV6Br, 443), Origin(ALPN_h1, HostDot, 80)}
\* the origin every header is parsed for; the other origins receive the
\* headers of OriginHeaders
MainOrigin == Origin(ALPN_h1, HostA, 80)

Headers ==
  {Header(<<Alt(H3, <<>>, <<8443>>, <<Ma(60)>>),
            Alt(H2, HostB, <<443>>, <<>>)>>),
   Header(<<Alt(H2, <<>>, <<443>>, <<Ma(1), Persist(1)>>)>>),
   Header(<<Alt(H3_29, <<>>, <<443>>, <<>>), Alt(H2, <<>>, <<443>>, <<>>)>>),
   Header(<<Alt(H2, HostB, <<8443>>, <<>>), Alt(H9, HostB, <<444>>, <<>>),
            Alt(H3, HostA, <<>>, <<>>)>>),
   Header(<<Alt(H9, <<>>, <<443>>, <<>>)>>),
   Header(<<Alt(H9, <<>>, <<443>>, <<>>), Alt(H3_29, <<>>, <<443>>, <<>>)>>),
   Header(<<Alt(H2, <<>>, <<>>, <<>>)>>),
   Header(<<Alt(H2, <<>>, <<443>>, <<MaQuoted(60), Persist(1)>>)>>),
   Header(<<Alt(H2, <<>>, <<443>>, <<MaQuoted(60), Persist(1)>>),
            Alt(H3, HostB, <<443>>, <<>>)>>),
   Header(<<Alt(H2, <<>>, <<443>>, <<Persist(1), MaQuoted(60)>>)>>),
   Header(<<Alt(H2, <<>>, <<0>>, <<>>), Alt(H3, HostB, <<443>>, <<>>)>>),
   Header(<<Alt(H2, <<>>, <<>>, <<>>), Alt(H3, HostB, <<443>>, <<>>)>>),
   Header(<<Alt(H2, HostB, <<USHRT_MAX + 1>>, <<>>)>>),
   Header(<<Alt(H2, HostBr, <<USHRT_MAX>>, <<>>)>>),
   Header(<<Alt(H2, HostB, <<443>>, <<Param(<<"x">>, 5), Persist(2)>>),
            Alt(H3, HostB, <<443>>, <<Ma(0), Ma(7)>>)>>),
   Header(<<Alt(H2, <<>>, <<443>>, <<Ma(TIME_T_MAX)>>)>>),
   Header(<<Alt(H2, <<>>, <<443>>, <<Ma(TIME_T_MAX + 1)>>)>>),
   Header(<<Alt(H2, <<>>, <<443>>, <<Ma(ULONG_MAX)>>)>>),
   Raw(CLEAR),
   Raw(CLEAR_MIXED \o <<" ">> \o AltText(Alt(H2, <<>>, <<443>>, <<>>))),
   Raw(<<>>),
   Raw(H2 \o H2 \o H2 \o H2 \o H2 \o <<"=", "\"", ":", "1", "\"">>),
   Raw(<<"h", "2", "=", "\"", ":", "4", "4", "3">>),
   Raw(<<"h", "2", "=", "\"", "b", "\"", ";", " ", "m", "a">>)}

\* the headers parsed for every origin: the stored kinds, the keyword clear
\* in both spellings, and an alternative whose host is only brackets
OriginHeaders ==
  {Header(<<Alt(H3, <<>>, <<8443>>, <<Ma(60)>>),
            Alt(H2, HostB, <<443>>, <<>>)>>),
   Header(<<Alt(H2, <<>>, <<443>>, <<Ma(1), Persist(1)>>)>>),
   Header(<<Alt(H2, HostBr, <<USHRT_MAX>>, <<>>)>>),
   Raw(CLEAR),
   Raw(CLEAR_MIXED \o <<" ">> \o AltText(Alt(H2, <<>>, <<443>>, <<>>)))}

\* a cache file of a word, a line with a port above 65535, and a line whose
\* quoted date is no date
File2 ==
  File(<<RawLine(<<"x", "\n">>),
         FileLine(H1, HostA, 70000, H2, HostB, 443, DateText(1), 0, 0),
         FileLine(H1, HostA, 80, H2, HostB, 443, <<"x">>, 1, 0)>>)

\* a cache file of lines at the edges of the format: a priority that is not
\* 0, the port 0, a source host that is only a dot, hosts that are only
\* brackets
File3 ==
  File(<<FileLine(H1, HostA, 80, H2, HostB, 443, DateText(1), 0, 1),
         FileLine(H1, HostA, 0, H2, HostB, 0, DateText(1), 0, 0),
         FileLine(H1, HostDot, 80, H2, HostDot, 443, DateText(1), 0, 0),
         FileLine(H1, HostBr, 80, H2, HostBr, 443, DateText(1), 1, 0)>>)

ParseFiles == {File1, File2, File3, NoFile}

CtrlMasks == {CURLALTSVC_H1, CURLALTSVC_H1 + CURLALTSVC_READONLYFILE}
InitFlags == {CURLALTSVC_H1}

\* Curl_altsvc_init; the caller is between two operations (op = "idle")
Init ==
  /\ list = <<>>
  /\ flags \in InitFlags
  /\ filename = <<>>
  /\ clock = 0
  /\ op = "idle"
  /\ ret = CURLE_OK
  /\ hit = <<>>
  /\ pre = <<>>
  /\ arg = NoArg
  /\ out = <<>>

\* the clock advances between two operations
Tick ==
  /\ op = "idle"
  /\ clock < MaxClock
  /\ clock' = clock + 1
  /\ UNCHANGED <<list, flags, filename, op, ret, hit, pre, arg, out>>

Parse(value, o) ==
  /\ op = "idle"
  /\ \E r \in {Curl_altsvc_parse(list, value.text, o.alpnid, o.host, o.port,
                               clock)} :
     /\ Len(r.list) <= MaxEntries
     /\ list' = r.list
     /\ op' = "parse"
     /\ ret' = r.result
     /\ pre' = list
     /\ arg' = [value |-> value.text, alts |-> value.alts, src |-> o,
                now |-> clock, flushes |-> r.flushes, added |-> r.added]
     /\ UNCHANGED <<flags, filename, clock, hit, out>>

Lookup(o, versions) ==
  /\ op = "idle"
  /\ \E r \in {Curl_altsvc_lookup(list, clock, o.alpnid, o.host, o.port,
                                versions)} :
     /\ list' = r.list
     /\ op' = "lookup"
     /\ ret' = IF r.found THEN 1 ELSE 0
     /\ hit' = r.entry
     /\ pre' = list
     /\ arg' = [src |-> o, versions |-> versions, now |-> clock]
     /\ UNCHANGED <<flags, filename, clock, out>>

Ctrl(ctrl) ==
  /\ op = "idle"
  /\ flags' = ctrl
  /\ op' = "ctrl"
  /\ ret' = CURLE_OK
  /\ pre' = list
  /\ arg' = [ctrl |-> ctrl]
  /\ UNCHANGED <<list, filename, clock, hit, out>>

\* Curl_altsvc_load(asi, file), the file holding content
Load(file, content, dupok) ==
  /\ op = "idle"
  /\ \E r \in {altsvc_load(list, filename, file, FileTexts(content), dupok)} :
     /\ Len(r.list) <= MaxEntries
     /\ list' = r.list
     /\ filename' = r.filename
     /\ op' = "load"
     /\ ret' = r.result
     /\ pre' = list
     /\ arg' = [file |-> file, dupok |-> dupok, content |-> content]
     /\ UNCHANGED <<flags, clock, hit, out>>

\* a save that leaves out the entries that have expired
Save_pruned(file0, io, ipv6, wide) ==
  /\ op = "idle"
  /\ \E r \in {Curl_altsvc_save(SelectSeq(list, LAMBDA e : e.expires >= clock),
                              flags, filename, file0, io.fopen_ok,
                              io.tempstore, io.rename_ok, io.write_ok,
                              ipv6, wide)} :
     /\ out' = r.out
     /\ op' = "save"
     /\ ret' = r.result
     /\ pre' = list
     /\ arg' = [file |-> file0, fopen_ok |-> io.fopen_ok,
                tempstore |-> io.tempstore, rename_ok |-> io.rename_ok,
                write_ok |-> io.write_ok, ipv6 |-> ipv6, wide |-> wide,
                temp |-> r.temp]
     /\ UNCHANGED <<list, flags, filename, clock, hit>>

Save(file0, io, ipv6, wide) ==
  /\ op = "idle"
  /\ \E r \in {Curl_altsvc_save(list, flags, filename, file0, io.fopen_ok,
                              io.tempstore, io.rename_ok, io.write_ok,
                              ipv6, wide)} :
     /\ out' = r.out
     /\ op' = "save"
     /\ ret' = r.result
     /\ pre' = list
     /\ arg' = [file |-> file0, fopen_ok |-> io.fopen_ok,
                tempstore |-> io.tempstore, rename_ok |-> io.rename_ok,
                write_ok |-> io.write_ok, ipv6 |-> ipv6, wide |-> wide,
                temp |-> r.temp]
     /\ UNCHANGED <<list, flags, filename, clock, hit>>

\* the operation returns to its caller, which may start the next one
Return ==
  /\ op # "idle"
  /\ op' = "idle"
  /\ ret' = CURLE_OK
  /\ hit' = <<>>
  /\ pre' = <<>>
  /\ arg' = NoArg
  /\ out' = <<>>
  /\ UNCHANGED <<list, flags, filename, clock>>

Next ==
  \/ Tick
  \/ \E value \in Values, o \in Origins : Parse(value, o)
  \/ \E o \in LookupOrigins, versions \in Versions : Lookup(o, versions)
  \/ \E ctrl \in CtrlMasks : Ctrl(ctrl)
  \/ \E file \in Paths, content \in Files, dupok \in BOOLEAN :
       Load(file, content, dupok)
  \/ \E file0 \in SaveFiles, io \in SaveIO, ipv6, wide \in BOOLEAN :
       Save(file0, io, ipv6, wide)
  \/ Return

Spec == Init /\ [][Next]_vars

\* the header parser and the loader on caches of at most MaxPrior entries,
\* at the last time of the clock
InitParse ==
  /\ list = <<>>
  /\ flags \in InitFlags
  /\ filename = <<>>
  /\ clock = MaxClock
  /\ op = "idle"
  /\ ret = CURLE_OK
  /\ hit = <<>>
  /\ pre = <<>>
  /\ arg = NoArg
  /\ out = <<>>

NextParse ==
  \/ \E value \in Headers :
       Len(list) <= MaxPrior /\ Parse(value, MainOrigin)
  \/ \E value \in OriginHeaders, o \in ParseOrigins \ {MainOrigin} :
       Len(list) <= MaxPrior /\ Parse(value, o)
  \/ \E file \in Paths, content \in ParseFiles, dupok \in BOOLEAN :
       Len(list) <= MaxPrior /\ Load(file, content, dupok)
  \/ Return

SpecParse == InitParse /\ [][NextParse]_vars

\* the cache file and the operations on it taken on their own: loads from
\* two paths, saves under every outcome of the file system, the read-only
\* flag set and cleared
FarTime == TIME_T_MAX \div 2 + 1

\* a cache file of an entry that expired at time 0 and one that has not
FileOld ==
  File(<<FileLine(H1, HostA, 80, H2, HostB, 443, DateText(0), 0, 0),
         FileLine(H2, HostB, 443, H3, HostV6Br, 8443, DateText(MaxClock), 1,
                  0)>>)

\* a cache file of one entry that expires at a time Curl_gmtime fails for
\* where time_t is wide
FileFar ==
  File(<<FileLine(H1, HostA, 80, H3, HostA, 8443, DateText(FarTime), 0, 0)>>)

FilePaths == {"f", "h"}
StoredFiles == {FileOld, FileFar, NoFile}
\* a stream whose writes fail, written in place and to a temporary file
FileIO == SaveIO \cup {IO(TRUE, FALSE, FALSE, FALSE), IO(TRUE, TRUE, TRUE, FALSE)}

NextFile ==
  \/ \E ctrl \in CtrlMasks : Ctrl(ctrl)
  \/ \E file \in FilePaths, content \in StoredFiles, dupok \in BOOLEAN :
       Len(list) <= MaxPrior /\ Load(file, content, dupok)
  \/ \E file0 \in SaveFiles, io \in FileIO, ipv6, wide \in BOOLEAN :
       Save(file0, io, ipv6, wide)
  \/ Return

SpecFile == InitParse /\ [][NextFile]_vars

(******************************* claims *************************************)
\* what the claims say, stated without the operators of the model
LowerStr(h) == [i \in 1..Len(h) |-> TOLOWER(h[i])]
StripDot(h) == IF Len(h) > 0 /\ h[Len(h)] = "." THEN SubSeq(h, 1, Len(h) - 1)
               ELSE h
HasBit(mask, bit) == bit > 0 /\ (mask \div bit) % 2 = 1

\* the host relation of the code: one trailing dot of the query is ignored
QueryDotMatch(stored, query) == LowerStr(stored) = LowerStr(StripDot(query))
\* the host relation as claimed: one trailing dot of the stored host is ignored
StoredDotMatch(stored, query) == LowerStr(StripDot(stored)) = LowerStr(query)

OriginMatches(e, o) ==
  /\ e.src.alpnid = o.alpnid
  /\ e.src.port = o.port
  /\ QueryDotMatch(e.src.host, o.host)

Expired(e, now) == e.expires < now

\* the positions of l a lookup may return
Candidates(l, o, versions, now) ==
  {i \in 1..Len(l) : /\ ~Expired(l[i], now)
                     /\ OriginMatches(l[i], o)
                     /\ HasBit(versions, l[i].dst.alpnid)}

MinOf(S) == CHOOSE i \in S : \A j \in S : i <= j

RECURSIVE Keep(_, _)
Keep(l, now) ==
  IF l = <<>> THEN <<>>
  ELSE IF Expired(Head(l), now) THEN Keep(Tail(l), now)
  ELSE <<Head(l)>> \o Keep(Tail(l), now)

\* C1: a lookup never returns an entry whose expires is strictly less than
\* the time read by that lookup, whatever operations and clock advances
\* came before
C1_LookupNeverReturnsExpired ==
  (op = "lookup" /\ hit # <<>>) => hit[1].expires >= arg.now

\* a lookup hit at a time when the list also held an expired entry
C1_Witness ==
  /\ op = "lookup" /\ hit # <<>> /\ arg.now > 0
  /\ \E i \in 1..Len(pre) : Expired(pre[i], arg.now)

\* C2: a lookup returns the first entry in insertion order that is not
\* expired, whose source equals the queried origin and whose destination
\* protocol bit is in the mask; it reports "not found" when there is none
C2_LookupFirstMatch ==
  op = "lookup" =>
    LET c == Candidates(pre, arg.src, arg.versions, arg.now)
    IN IF c = {} THEN ret = 0 /\ hit = <<>>
       ELSE ret = 1 /\ hit = <<pre[MinOf(c)]>>

\* a hit on the second of two candidates left after an earlier entry of the
\* origin was passed over
C2_Witness ==
  /\ op = "lookup" /\ hit # <<>>
  /\ LET c == Candidates(pre, arg.src, arg.versions, arg.now)
     IN /\ MinOf(c) > 1
        /\ \E i \in 1..(MinOf(c) - 1) :
             OriginMatches(pre[i], arg.src) /\ ~Expired(pre[i], arg.now)

\* C3: after a lookup the list is the list before it without the expired
\* entries in front of the returned entry (without all expired entries on a
\* miss); everything else is kept in order
C3_LookupRemovesExpiredBeforeMatch ==
  op = "lookup" =>
    LET c == Candidates(pre, arg.src, arg.versions, arg.now)
    IN IF c = {} THEN list = Keep(pre, arg.now)
       ELSE list = Keep(SubSeq(pre, 1, MinOf(c) - 1), arg.now)
                   \o SubSeq(pre, MinOf(c), Len(pre))

\* a hit with an expired entry removed in front of it and an expired entry
\* kept behind it
C3_Witness ==
  /\ op = "lookup" /\ hit # <<>>
  /\ Len(list) < Len(pre)
  /\ Expired(list[Len(list)], arg.now)

\* C7 as claimed: the lookup matches hosts ignoring case and one trailing
\* dot of the stored host only
C7_Original ==
  op = "lookup" =>
    LET c == {i \in 1..Len(pre) :
                /\ ~Expired(pre[i], arg.now)
                /\ pre[i].src.alpnid = arg.src.alpnid
                /\ pre[i].src.port = arg.src.port
                /\ StoredDotMatch(pre[i].src.host, arg.src.host)
                /\ HasBit(arg.versions, pre[i].dst.alpnid)}
    IN (hit = <<>>) <=> (c = {})

\* C7 amended: in lookup and flush the host comparison ignores case and
\* exactly one trailing dot of the queried host, none of the stored host
C7_QueryDotTolerated ==
  /\ (op = "lookup" /\ hit # <<>>) =>
       QueryDotMatch(hit[1].src.host, arg.src.host)
  /\ op = "lookup" =>
       \A i \in 1..Len(list) :
         (/\ hit # <<>> => list[i] # hit[1]
          /\ ~Expired(list[i], arg.now)
          /\ list[i].src.alpnid = arg.src.alpnid
          /\ list[i].src.port = arg.src.port
          /\ HasBit(arg.versions, list[i].dst.alpnid)
          /\ QueryDotMatch(list[i].src.host, arg.src.host))
         => (hit # <<>> /\ \E j \in 1..(i - 1) : list[j] = hit[1])
  /\ (op = "parse" /\ arg.flushes > 0) =>
       \A i \in 1..Len(pre) :
         (pre[i].src.alpnid = arg.src.alpnid
          /\ pre[i].src.port = arg.src.port)
         => (QueryDotMatch(pre[i].src.host, arg.src.host)
             <=> \A j \in 1..(Len(list) - Len(arg.added)) :
                   list[j] # pre[i])

\* the query "a." returns an entry stored for "a" while an entry stored
\* for "a." is in the list
C7_Witness ==
  /\ op = "lookup" /\ hit # <<>>
  /\ arg.src.host = HostADot /\ hit[1].src.host = HostA
  /\ \E i \in 1..Len(pre) : pre[i].src.host = HostADot

\* the first token of a header value: the text behind the leading blanks up
\* to the next blank, ';' or '='
TokenStart(v) ==
  MinOf({i \in 1..(Len(v) + 1) : i = Len(v) + 1 \/ v[i] \notin {" ", "\t"}})
TokenStop(v) ==
  MinOf({j \in TokenStart(v)..(Len(v) + 1) :
           j = Len(v) + 1 \/ v[j] \in {" ", "\t", ";", "="}})
FirstToken(v) == SubSeq(v, TokenStart(v), TokenStop(v) - 1)
IsClear(v) == LowerStr(FirstToken(v)) = CLEAR

\* the entries of l that are not of the origin o
Without(l, o) == SelectSeq(l, LAMBDA e : ~OriginMatches(e, o))
\* the entries of l that are of the origin o
Of(l, o) == SelectSeq(l, LAMBDA e : OriginMatches(e, o))

\* C4: a parse of a value whose first token is "clear" in any letter case
\* removes every entry of the source origin, inserts none, processes
\* nothing else of the value and leaves the entries of other origins as
\* they were, in order
C4_ClearRemovesOrigin ==
  (op = "parse" /\ IsClear(arg.value)) => list = Without(pre, arg.src)

\* a clear in mixed case, followed by an alternative, on a cache that holds
\* an entry of the origin and an entry of another origin
C4_Witness ==
  /\ op = "parse" /\ IsClear(arg.value) /\ FirstToken(arg.value) # CLEAR
  /\ Len(arg.value) > Len(CLEAR)
  /\ Len(pre) = 2 /\ Len(list) = 1

\* the protocol a token names: ALPN_none for a token that is not recognized
TokId(tok) ==
  CASE tok = H1 -> ALPN_h1
    [] tok = H2 -> ALPN_h2
    [] tok = H3 -> ALPN_h3
    [] OTHER -> ALPN_none

\* a valid alternative: a recognized token, a host or a port named, the port
\* within 1..65535
ValidAlt(a) ==
  /\ TokId(a.tok) # ALPN_none
  /\ a.host # <<>> \/ a.port # <<>>
  /\ a.port # <<>> => a.port[1] \in 1..USHRT_MAX
ValidAlts(alts) == SelectSeq(alts, ValidAlt)

\* a source host an entry can be made for: something is left of it when its
\* trailing dot is taken off
SourceHostOk(o) == StripDot(o.host) # <<>>

\* C5: a parse of a value with k >= 1 valid alternatives flushes the origin
\* exactly once; afterwards the entries of the origin are the k
\* alternatives of the value, in header order, none stored before the call
\* remains, and the entries of other origins are as before
C5_FlushOnceThenAppend ==
  (op = "parse" /\ ValidAlts(arg.alts) # <<>> /\ SourceHostOk(arg.src)) =>
    LET v == ValidAlts(arg.alts)
        mine == Of(list, arg.src)
    IN /\ arg.flushes = 1
       /\ Len(mine) = Len(v)
       /\ \A i \in 1..Len(v) :
            /\ mine[i].dst.alpnid = TokId(v[i].tok)
            /\ v[i].host # <<>> => mine[i].dst.host = v[i].host
            /\ v[i].port # <<>> => mine[i].dst.port = v[i].port[1]
       /\ \A i \in 1..Len(mine) : \E j \in 1..Len(arg.added) :
            mine[i] = arg.added[j]
       /\ Without(list, arg.src) = Without(pre, arg.src)

\* the alternatives with a recognized token
Recognized(alts) == SelectSeq(alts, LAMBDA a : TokId(a.tok) # ALPN_none)

\* C6: an alternative with an unrecognized token is dropped without effect
\* on the other alternatives of the value: the parse leaves the list, and
\* flushes as often, as the parse of the value without the unrecognized
\* alternatives does
C6_UnrecognizedDropped ==
  (op = "parse" /\ arg.alts # <<>> /\ Recognized(arg.alts) # arg.alts) =>
    \E r \in {Curl_altsvc_parse(pre, ValueText(Recognized(arg.alts)),
                                arg.src.alpnid, arg.src.host, arg.src.port,
                                arg.now)} :
      list = r.list /\ arg.flushes = r.flushes

\* a header of one valid alternative whose only parameter is ma
SingleMa(alts) ==
  /\ Len(alts) = 1 /\ ValidAlt(alts[1])
  /\ Len(alts[1].params) = 1 /\ alts[1].params[1].name = <<"m", "a">>

\* C8: the expiry stored for ma=N is min(now + N, TIME_T_MAX), never a
\* wrapped small or negative value
C8_MaxAgeSaturates ==
  (op = "parse" /\ SingleMa(arg.alts) /\ SourceHostOk(arg.src)) =>
    /\ Len(arg.added) = 1
    /\ arg.added[1].expires = Min(arg.now + arg.alts[1].params[1].val,
                                  TIME_T_MAX)

\* the entries of l1 and l2 agree in order, source, destination and persist
\* flag, and in expires to within one second
SameEntries(l1, l2) ==
  /\ Len(l1) = Len(l2)
  /\ \A i \in 1..Len(l1) :
       /\ l1[i].src = l2[i].src
       /\ l1[i].dst = l2[i].dst
       /\ l1[i].persist = l2[i].persist
       /\ l1[i].expires - l2[i].expires \in {-1, 0, 1}

\* a save that is not refused (a file is named, the cache is not read-only)
\* and that the file system lets succeed
SaveAttempted ==
  /\ op = "save"
  /\ ~HasBit(flags, CURLALTSVC_READONLYFILE)
  /\ \/ arg.file # <<>> /\ arg.file[1] # ""
     \/ arg.file = <<>> /\ filename # <<>>
  /\ arg.fopen_ok /\ arg.write_ok
  /\ arg.tempstore => arg.rename_ok

\* C9: the save of a non-empty cache succeeds, and the load of the written
\* file into a fresh cache yields the same entries in the same order
C9_RoundTrip ==
  (SaveAttempted /\ pre # <<>>) =>
    /\ ret = CURLE_OK
    /\ out # <<>>
    /\ SameEntries(load_lines(<<>>, out[1].lines), pre)

\* C10: a parse returns success for every value and every cache; a load
\* returns success for every content of the file, also for a file that
\* cannot be opened, unless the copy of the path cannot be stored
C10_MalformedNeverReported ==
  /\ op = "parse" => ret = CURLE_OK
  /\ op = "load" => (ret = CURLE_OK <=> arg.dupok)

\* a parse of a value whose first token is too long for the token buffer
C10_Witness ==
  /\ op = "parse"
  /\ Len(FirstToken(arg.value)) >= MAX_ALTSVC_ALPNLEN
  /\ ret = CURLE_OK

\* the alternatives of a header that name the destination protocol and the
\* destination host of the entry e
AltsOf(alts, e) ==
  {i \in 1..Len(alts) : /\ TokId(alts[i].tok) = e.dst.alpnid
                        /\ alts[i].host = e.dst.host}

\* C11: the entry stored for an alternative whose quoted part names no port
\* has the port of the source as its destination port, whatever ports the
\* alternatives before it, stored or dropped, named
C11_DefaultPortIsSourcePort ==
  (op = "parse" /\ arg.alts # <<>>) =>
    \A j \in 1..Len(arg.added) :
      (/\ AltsOf(arg.alts, arg.added[j]) # {}
       /\ \A i \in AltsOf(arg.alts, arg.added[j]) : arg.alts[i].port = <<>>)
      => arg.added[j].dst.port = arg.src.port

\* an alternative with a recognized token whose quoted part names no host:
\* ":port" with a port within 1..65535, or nothing at all
HostlessAlt(a) ==
  /\ TokId(a.tok) # ALPN_none
  /\ a.host = <<>>
  /\ a.port # <<>> => a.port[1] \in 1..USHRT_MAX

\* C12: for each alternative with a recognized protocol whose quoted part
\* names no host, in the form ":port" and in the empty form "", the parse
\* stores an entry of that protocol whose destination host is the host of
\* the source
C12_DefaultHostIsSourceHost ==
  (op = "parse" /\ arg.alts # <<>> /\ SourceHostOk(arg.src)) =>
    \A i \in 1..Len(arg.alts) :
      HostlessAlt(arg.alts[i]) =>
        \E j \in 1..Len(arg.added) :
          /\ arg.added[j].dst.alpnid = TokId(arg.alts[i].tok)
          /\ arg.added[j].dst.host \in {arg.src.host, arg.added[j].src.host}

\* the max-age the parameters of an alternative give: the value of the last
\* ma, d when there is none
RECURSIVE MaxAgeOf(_, _)
MaxAgeOf(pms, d) ==
  IF pms = <<>> THEN d
  ELSE MaxAgeOf(Tail(pms), IF Head(pms).name = <<"m", "a">>
                           THEN Head(pms).val ELSE d)

\* the parameters of an alternative hold persist=1
PersistOf(pms) ==
  \E i \in 1..Len(pms) :
    pms[i].name = <<"p", "e", "r", "s", "i", "s", "t">> /\ pms[i].val = 1

\* C13: for every stored alternative expires is now + N when it carries
\* ma=N (read as the largest time when now + N is not a time) and
\* now + 86400 when it carries no ma, the default afresh for each
\* alternative; persist is set exactly when it carries persist=1; unknown
\* parameter names change neither. Stated for the values all of whose
\* alternatives are stored, so that the entries added are the alternatives
\* in order
C13_ParamsSetExpiryAndPersist ==
  (op = "parse" /\ arg.alts # <<>> /\ Len(arg.added) = Len(arg.alts)) =>
    \A i \in 1..Len(arg.alts) :
      /\ arg.added[i].expires =
           Min(arg.now + MaxAgeOf(arg.alts[i].params, 86400), TIME_T_MAX)
      /\ arg.added[i].persist = 1 <=> PersistOf(arg.alts[i].params)

\* a save that returned success after it wrote the whole file onto the target
SaveWritten == op = "save" /\ ret = CURLE_OK /\ out # <<>> /\ out[1].complete

\* the line of a cache file is the line of the entry e: read back, it gives
\* one entry of the protocols, ports, destination host, expiry and persist
\* flag of e
LineOfEntry(line, e) ==
  \E l \in {load_lines(<<>>, <<line>>)} :
    /\ Len(l) = 1
    /\ l[1].src.alpnid = e.src.alpnid /\ l[1].src.port = e.src.port
    /\ l[1].dst = e.dst
    /\ l[1].expires = e.expires /\ l[1].persist = e.persist

\* C14: a save that is not refused and succeeds writes the two comment lines
\* and then one line for each entry of the cache, in the order of the list,
\* the expired entries among them; no save changes the list
C14_SaveWritesEveryEntry ==
  /\ op = "save" => list = pre
  /\ SaveWritten =>
       /\ Len(out[1].lines) = Len(pre) + 2
       /\ \A i \in 1..2 : Head(out[1].lines[i]) = "#"
       /\ \A i \in 1..Len(pre) :
            LineOfEntry(out[1].lines[i + 2], pre[i])

\* a save of two different entries, the first of them expired
C14_Witness ==
  /\ SaveWritten
  /\ Len(pre) >= 2 /\ pre[1] # pre[2]
  /\ Expired(pre[1], clock)

\* the file a save is to write: the file given, else the file of the last
\* load; <<>> when there is neither
SavePath == IF arg.file # <<>> THEN arg.file ELSE filename

\* a save on a read-only cache, or without a path, or with the empty path
SaveRefused ==
  /\ op = "save"
  /\ \/ HasBit(flags, CURLALTSVC_READONLYFILE)
     \/ SavePath = <<>>
     \/ SavePath = <<"">>

\* C15: a save returns success and writes nothing, the target file and the
\* cache left as they were, whenever the cache is read-only (also after a
\* control call set the bit), no path is available, or the path is empty
C15_RefusedSaveWritesNothing ==
  SaveRefused =>
    /\ ret = CURLE_OK
    /\ out = <<>>
    /\ arg.temp = "none"
    /\ list = pre

\* a save of a non-empty cache to a named file the file system would let
\* succeed, after a control call set the read-only bit
C15_Witness ==
  /\ SaveRefused
  /\ HasBit(flags, CURLALTSVC_READONLYFILE)
  /\ \A f \in InitFlags : ~HasBit(f, CURLALTSVC_READONLYFILE)
  /\ arg.file = <<"g">> /\ arg.fopen_ok /\ arg.write_ok
  /\ arg.tempstore /\ arg.rename_ok
  /\ pre # <<>>

\* a save that is not refused in which the open of the file, a write to it
\* or its close, or the rename of the temporary file fails
SaveStepFails ==
  /\ op = "save" /\ ~SaveRefused
  /\ \/ ~arg.fopen_ok
     \/ ~arg.write_ok
     \/ arg.tempstore /\ ~arg.rename_ok

\* C16: a save in which a step fails reports an error, removes the temporary
\* file and leaves the target as it was; a save that is not refused reports
\* success only when the complete file was written onto the target
C16_FailedSaveReported ==
  /\ SaveStepFails => ret # CURLE_OK
  /\ (op = "save" /\ ret # CURLE_OK) =>
       out = <<>> /\ arg.temp \in {"none", "unlinked"}
  /\ (op = "save" /\ ~SaveRefused /\ ret = CURLE_OK) =>
       /\ out # <<>> /\ out[1].complete
       /\ Len(out[1].lines) = Len(pre) + 2

\* a line of nine fields as C17 describes it
WellFormedLine(ln) ==
  /\ ln.rec # <<>>
  /\ \E r \in {ln.rec[1]} :
       /\ TokId(r.salpn) # ALPN_none /\ TokId(r.dalpn) # ALPN_none
       /\ Len(r.salpn) <= 10 /\ Len(r.dalpn) <= 10
       /\ Len(r.shost) \in 1..2048 /\ Len(r.dhost) \in 1..2048
       /\ r.sport \in 0..65535 /\ r.dport \in 0..65535
       /\ Len(r.date) <= 256
       /\ r.persist \in {0, 1}
       /\ r.prio \in Nat

\* the entry e is of the protocols, ports and persist flag the line names
EntryOfLine(e, ln) ==
  \E r \in {ln.rec[1]} :
    /\ e.src.alpnid = TokId(r.salpn) /\ e.dst.alpnid = TokId(r.dalpn)
    /\ e.src.port = r.sport /\ e.dst.port = r.dport
    /\ e.persist = r.persist

\* C17: a load appends, in the order of the file, one entry for every line
\* of nine well-formed fields, and nothing for any other line; the entries
\* held before stay as they were
C17_LoadAppendsWellFormedLines ==
  (op = "load" /\ arg.dupok /\ arg.content.exists) =>
    \E wf \in {SelectSeq(arg.content.lines, WellFormedLine)} :
      /\ Len(list) = Len(pre) + Len(wf)
      /\ SubSeq(list, 1, Len(pre)) = pre
      /\ \A i \in 1..Len(wf) : EntryOfLine(list[Len(pre) + i], wf[i])

\* C18: after a load of a path that returned success, whether or not the
\* file existed or held a valid line, the cache keeps that path; nothing but
\* a load changes the path kept; a save that writes a file writes the path
\* given to it, and the path kept by the most recent load when none is given
C18_SaveUsesLoadedPath ==
  /\ [](/\ (op = "load" /\ ret = CURLE_OK) => filename = <<arg.file>>
        /\ (op = "save" /\ out # <<>>) => <<out[1].path>> = SavePath
        /\ (op = "save" /\ ~SaveRefused /\ ret = CURLE_OK) => out # <<>>)
  /\ [][filename' # filename => op' = "load"]_vars

\* a save with no path given writes the path of a load whose file did not
\* exist, the cache holding no entry
C18_Witness ==
  /\ op = "save" /\ arg.file = <<>>
  /\ pre = <<>> /\ filename = <<"h">>
  /\ out # <<>> /\ out[1].path = "h"

\* C19: in every state of the cache the source port and the destination
\* port of every entry lie in 1..65535, for the entries a parse creates and
\* for the entries a load creates from any content of the file
C19_PortsInRange ==
  \A i \in 1..Len(list) :
    list[i].src.port \in 1..65535 /\ list[i].dst.port \in 1..65535

\* C20: in every state of the cache the source host and the destination
\* host of every entry are not empty, whatever header values, source hosts
\* and file lines were given
C20_HostsNeverEmpty ==
  \A i \in 1..Len(list) :
    list[i].src.host # <<>> /\ list[i].dst.host # <<>>

\* a parse of a valid alternative for the source host "." on a cache that
\* holds an entry whose hosts are only brackets
C20_Witness ==
  /\ op = "parse" /\ arg.src.host = HostDot
  /\ arg.alts # <<>> /\ ValidAlts(arg.alts) = arg.alts
  /\ \E i \in 1..Len(list) :
       list[i].src.host = HostBr /\ list[i].dst.host = HostBr

\* C21: in every state of the cache no entry has the invalid protocol id as
\* its destination protocol, after parses of unrecognized tokens and loads of
\* lines with unrecognized tokens; the entry a lookup returns has a
\* destination protocol of the mask, never the invalid id
C21_NoInvalidDestination ==
  /\ \A i \in 1..Len(list) :
       list[i].dst.alpnid \in {ALPN_h1, ALPN_h2, ALPN_h3}
  /\ (op = "lookup" /\ hit # <<>>) =>
       /\ hit[1].dst.alpnid # ALPN_none
       /\ HasBit(arg.versions, hit[1].dst.alpnid)

\* a load that stored an entry from a file that also holds a line whose
\* destination token is not recognized
C21_Witness ==
  /\ op = "load" /\ Len(list) > Len(pre)
  /\ \E i \in 1..Len(arg.content.lines) :
       /\ arg.content.lines[i].rec # <<>>
       /\ TokId(arg.content.lines[i].rec[1].dalpn) = ALPN_none

\* an alternative whose host is empty or whose port is not within 1..65535
BadHostOrPort(a) ==
  \/ a.host = <<>> /\ a.port = <<>>
  \/ a.port # <<>> /\ a.port[1] \notin 1..USHRT_MAX

\* the parse stored an entry for the alternative a
StoredFor(a) ==
  \E j \in 1..Len(arg.added) :
    /\ arg.added[j].dst.alpnid = TokId(a.tok)
    /\ a.host # <<>> => arg.added[j].dst.host = a.host
    /\ a.port # <<>> => arg.added[j].dst.port = a.port[1]

\* C22: an alternative with an invalid host or port is the only one dropped
\* for it: every valid alternative behind it in the same value is stored
C22_BadAlternativeDroppedAlone ==
  (op = "parse" /\ arg.alts # <<>> /\ SourceHostOk(arg.src)) =>
    \A j \in 1..Len(arg.alts) :
      (/\ ValidAlt(arg.alts[j])
       /\ \E i \in 1..(j - 1) : BadHostOrPort(arg.alts[i]))
      => StoredFor(arg.alts[j])

\* C23: a flush removes every entry whose source is the origin flushed (the
\* protocol id, the port, the host as the host comparison of the code
\* matches it), expired or not, with or without the persist flag, and
\* nothing else: what a parse that flushed leaves in front of the entries
\* it added is the list before without the entries of the origin, in order
C23_FlushRemovesOriginOnly ==
  (op = "parse" /\ arg.flushes > 0) =>
    SubSeq(list, 1, Len(list) - Len(arg.added)) = Without(pre, arg.src)

\* a flush that removed an expired entry with the persist flag and left an
\* entry of another origin in the list
C23_Witness ==
  /\ op = "parse" /\ arg.flushes > 0
  /\ \E i \in 1..Len(pre) :
       /\ OriginMatches(pre[i], arg.src)
       /\ Expired(pre[i], arg.now) /\ pre[i].persist = 1
  /\ \E k \in 1..Len(pre) : ~OriginMatches(pre[k], arg.src)
  /\ Len(list) - Len(arg.added) >= 1

\* one of the parameters of the alternative has a quoted value
HasQuoted(a) == \E i \in 1..Len(a.params) : a.params[i].quoted

\* the parse stored an entry for the alternative a with its parameters
\* applied
StoredWithParams(a) ==
  \E j \in 1..Len(arg.added) :
    /\ arg.added[j].dst.alpnid = TokId(a.tok)
    /\ a.host # <<>> => arg.added[j].dst.host = a.host
    /\ a.port # <<>> => arg.added[j].dst.port = a.port[1]
    /\ arg.added[j].expires =
         Min(arg.now + MaxAgeOf(a.params, 86400), TIME_T_MAX)
    /\ arg.added[j].persist = 1 <=> PersistOf(a.params)

\* C24: in a value one of whose alternatives has a quoted parameter value,
\* with bare values of other parameters before or behind it, every valid
\* alternative is stored with all its parameters applied, the alternatives
\* behind the next ',' included
C24_QuotedAndBareValues ==
  (/\ op = "parse" /\ SourceHostOk(arg.src)
   /\ \E i \in 1..Len(arg.alts) : HasQuoted(arg.alts[i])) =>
    \A j \in 1..Len(arg.alts) :
      ValidAlt(arg.alts[j]) => StoredWithParams(arg.alts[j])

\* C25: a parse of a value that is not "clear" and holds no valid
\* alternative (unrecognized tokens, invalid hosts or ports, a leading token
\* that is empty or too long, a text that is no alternative) leaves the list
\* as it was: nothing is flushed, nothing is added
C25_NoValidAlternativeNoChange ==
  (op = "parse" /\ ~IsClear(arg.value) /\ ValidAlts(arg.alts) = <<>>) =>
    /\ list = pre
    /\ arg.flushes = 0
    /\ arg.added = <<>>

\* every alternative of the value has a max-age above 0 that added to the
\* time of the parse is a time
PositiveMaxAges ==
  \A i \in 1..Len(arg.alts) :
    MaxAgeOf(arg.alts[i].params, 86400) \in 1..(TIME_T_MAX - arg.now)

\* C26: when a parse has stored an alternative with a positive max-age, the
\* lookup at the time of the parse for the source as it was given to the
\* parse (the host text included, bracketed or with a trailing dot) and for
\* the destination protocol of a stored entry finds an entry that parse
\* stored; and the entries of that source stored by an earlier parse are
\* gone, replaced by the ones added
C26_ParseThenLookupFinds ==
  (op = "parse" /\ arg.alts # <<>> /\ arg.added # <<>> /\ PositiveMaxAges) =>
    /\ \A j \in 1..Len(arg.added) :
         \E r \in {Curl_altsvc_lookup(list, arg.now, arg.src.alpnid,
                                      arg.src.host, arg.src.port,
                                      arg.added[j].dst.alpnid)} :
           /\ r.found
           /\ \E k \in 1..Len(arg.added) : r.entry = <<arg.added[k]>>
    /\ \A i \in 1..(Len(list) - Len(arg.added)) :
         list[i].src # arg.added[1].src

====
